---- MODULE Spec2Model ----
(***************************************************************************)
(* WYGIWYH: the Django system checks of apps/common/checks.py (startup     *)
(* validation of the process environment) and the session / user handlers  *)
(* of apps/users/views.py.                                                 *)
(*                                                                         *)
(* A Python str is a sequence of one-character strings, so that int(),     *)
(* str.lower() and the truth test of a str are computed character by       *)
(* character.  A Python list object lives in `heap` and is named by its    *)
(* index there, so that sharing of a list between calls is visible.        *)
(***************************************************************************)
EXTENDS Integers, Sequences, FiniteSets, TLC

VARIABLES
    environ,    \* os.environ: a function from the bound names to their str
    settings,   \* the resolved django settings the checks would read
    heap,       \* the list objects allocated so far, by identity
    calls,      \* the check calls made so far and what each gave its caller
    session,    \* request.session of the browsing user
    users,      \* the user table: id -> record, or NoUser
    response    \* what the last view call answered

vars == <<environ, settings, heap, calls, session, users, response>>

(***************************************************************************)
(* Bounds of the model.                                                    *)
(***************************************************************************)
MaxStrLen == 2      \* every str over IntAlphabet up to this length is tried
MaxCalls == 2       \* check calls in one behaviour
MaxProviders == 2   \* entries SOCIALACCOUNT_PROVIDERS may hold
MaxUsers == 2       \* rows of the user table

(***************************************************************************)
(* Python values.                                                          *)
(***************************************************************************)
\* Optional[str]: what os.getenv returns.
None == [none |-> TRUE, s |-> <<>>]
Str(s) == [none |-> FALSE, s |-> s]

\* A mutant of truthy: only None is falsy.
truthy_is_not_none(v) == ~v.none

\* bool(value) for an Optional[str]: None and "" are falsy.
truthy(v) == ~v.none /\ Len(v.s) > 0

\* os.getenv(key, default): the binding of key, else the default.
os_getenv(key, default) ==
    IF key \in DOMAIN environ THEN Str(environ[key]) ELSE default

Whitespace == {" ", "\t", "\n"}
DigitChars == {"0", "1", "2", "3", "4", "5", "6", "7", "8", "9"}

DigitValue(c) ==
    CASE c = "0" -> 0 [] c = "1" -> 1 [] c = "2" -> 2 [] c = "3" -> 3
      [] c = "4" -> 4 [] c = "5" -> 5 [] c = "6" -> 6 [] c = "7" -> 7
      [] c = "8" -> 8 [] c = "9" -> 9

RECURSIVE lstrip(_)
lstrip(s) ==
    IF Len(s) > 0 /\ Head(s) \in Whitespace THEN lstrip(Tail(s)) ELSE s

RECURSIVE rstrip(_)
rstrip(s) ==
    IF Len(s) > 0 /\ s[Len(s)] \in Whitespace
    THEN rstrip(SubSeq(s, 1, Len(s) - 1))
    ELSE s

strip(s) == rstrip(lstrip(s))

\* The digits of a base-10 literal, scanned left to right: a digit extends
\* the number, an underscore is accepted only between two digits, anything
\* else fails.  prev is the previous character ("" before the first).
RECURSIVE scan_digits(_, _, _)
scan_digits(s, prev, acc) ==
    IF Len(s) = 0
    THEN [ok |-> prev \in DigitChars, val |-> acc]
    ELSE IF Head(s) \in DigitChars
         THEN scan_digits(Tail(s), Head(s), 10 * acc + DigitValue(Head(s)))
         ELSE IF Head(s) = "_" /\ prev \in DigitChars
              THEN scan_digits(Tail(s), "_", acc)
              ELSE [ok |-> FALSE, val |-> 0]

\* A mutant of int: str.isdigit() in place of the parse.
int_isdigit(s) ==
    [ok |-> Len(s) > 0 /\ \A k \in 1..Len(s) : s[k] \in DigitChars, val |-> 0]

\* int(value) for a str: surrounding whitespace is dropped, one sign is
\* accepted, the rest must be a base-10 literal.  ok = FALSE is ValueError.
int(s) ==
    LET t == strip(s)
        signed == Len(t) > 0 /\ Head(t) \in {"+", "-"}
        body == IF signed THEN Tail(t) ELSE t
        r == scan_digits(body, "", 0)
    IN  IF ~r.ok THEN [ok |-> FALSE, val |-> 0]
        ELSE [ok |-> TRUE,
              val |-> IF signed /\ Head(t) = "-" THEN 0 - r.val ELSE r.val]

\* str.lower(), character by character.
lower_char(c) ==
    CASE c = "T" -> "t" [] c = "R" -> "r" [] c = "U" -> "u" [] c = "E" -> "e"
      [] c = "F" -> "f" [] c = "A" -> "a" [] c = "L" -> "l" [] c = "S" -> "s"
      [] c = "Y" -> "y" [] OTHER -> c

\* A mutant of lower: the flag is compared as it is written.
lower_missing(s) == s

lower(s) == [i \in 1..Len(s) |-> lower_char(s[i])]

(***************************************************************************)
(* apps/common/checks.py                                                   *)
(***************************************************************************)
REQUIRED_ENV_VARS == <<
    <<"SECRET_KEY", "This is used to provide cryptographic signing.">>,
    <<"SQL_DATABASE", "The name of your postgres database.">> >>

INT_ENV_VARS == <<
    <<"TASK_WORKERS", "How many workers to have for async tasks.">>,
    <<"SESSION_EXPIRY_TIME", "The age of session cookies, in seconds.">>,
    <<"INTERNAL_PORT", "The port on which the app listens on.">>,
    <<"DJANGO_VITE_DEV_SERVER_PORT",
      "The port where Vite's dev server is running">> >>

\* The names bound in the module's namespace: its imports and its own
\* definitions.  `settings` is not among them.
ModuleGlobals == {
    "os", "Error", "register", "REQUIRED_ENV_VARS", "INT_ENV_VARS",
    "check_required_env_vars", "check_int_env_vars",
    "check_soft_delete_config", "check_oidc_vars" }

\* The checks in the order their @register() decorators run.
RegisteredChecks == <<
    "check_required_env_vars", "check_int_env_vars",
    "check_soft_delete_config", "check_oidc_vars" >>

\* An f-string: its text with the interpolated name and value kept apart.
FString(fmt, var_name, value) ==
    [fmt |-> fmt, var_name |-> var_name, value |-> value]

\* django.core.checks.Error(msg, hint=..., id=...)
Error(msg, hint, id) == [msg |-> msg, hint |-> hint, id |-> id]

\* A call's outcome: the heap after it, the exception it raised ("None" if
\* it returned) and the identity of the list it returned.
Return(h, id) == [heap |-> h, exc |-> "None", ret |-> id]
Raise(h, exc) == [heap |-> h, exc |-> exc, ret |-> 0]

\* A mutant of NewList: one module-level list, created once and reused.
SharedList(h) ==
    IF Len(h) = 0
    THEN [heap |-> Append(h, <<>>), id |-> 1]
    ELSE [heap |-> h, id |-> 1]

\* errors = []: a new, empty list object.
NewList(h) == [heap |-> Append(h, <<>>), id |-> Len(h) + 1]

\* errors.append(x)
list_append(h, id, x) == [h EXCEPT ![id] = Append(@, x)]

\* errors.extend(xs)
list_extend(h, id, xs) == [h EXCEPT ![id] = @ \o xs]

\* The body of the for loop of check_required_env_vars, from entry i on.
RECURSIVE required_loop(_, _, _)
required_loop(h, errors, i) ==
    IF i > Len(REQUIRED_ENV_VARS) THEN h
    ELSE LET var_name == REQUIRED_ENV_VARS[i][1]
             description == REQUIRED_ENV_VARS[i][2]
             value == os_getenv(var_name, None)
         IN  IF ~truthy(value)
             THEN required_loop(
                    list_append(h, errors,
                        Error(FString("Required environment variable '{var_name}' is not set.",
                                      var_name, <<>>),
                              FString("{description} Please set this variable in your .env file or environment.",
                                      description, <<>>),
                              "wygiwyh.E001")),
                    errors, i + 1)
             ELSE required_loop(h, errors, i + 1)

call_check_required_env_vars(h) ==
    LET errors == NewList(h)
    IN  Return(required_loop(errors.heap, errors.id, 1), errors.id)

\* The body of the for loop of check_int_env_vars, from entry i on.
RECURSIVE int_loop(_, _, _)
int_loop(h, errors, i) ==
    IF i > Len(INT_ENV_VARS) THEN h
    ELSE LET var_name == INT_ENV_VARS[i][1]
             description == INT_ENV_VARS[i][2]
             value == os_getenv(var_name, None)
         IN  IF ~value.none /\ ~int(value.s).ok
             THEN int_loop(
                    list_append(h, errors,
                        Error(FString("Environment variable '{var_name}' must be a valid integer, got '{value}'.",
                                      var_name, value.s),
                              FString("{description}", description, <<>>),
                              "wygiwyh.E002")),
                    errors, i + 1)
             ELSE int_loop(h, errors, i + 1)

call_check_int_env_vars(h) ==
    LET errors == NewList(h)
    IN  Return(int_loop(errors.heap, errors.id, 1), errors.id)

call_check_soft_delete_config(h) ==
    LET errors == NewList(h)
        enable_soft_delete ==
            lower(os_getenv("ENABLE_SOFT_DELETE", Str(<<"f", "a", "l", "s", "e">>)).s)
                = <<"t", "r", "u", "e">>
        keep_deleted_for == os_getenv("KEEP_DELETED_TRANSACTIONS_FOR", None)
    IN  IF enable_soft_delete /\ ~keep_deleted_for.none /\ ~int(keep_deleted_for.s).ok
        THEN Return(
               list_append(errors.heap, errors.id,
                   Error(FString("Environment variable 'KEEP_DELETED_TRANSACTIONS_FOR' must be a valid integer when ENABLE_SOFT_DELETE is enabled, got '{keep_deleted_for}'.",
                                 "KEEP_DELETED_TRANSACTIONS_FOR", keep_deleted_for.s),
                         FString("Time in days to keep soft deleted transactions for. Set to 0 to keep all transactions indefinitely.",
                                 "", <<>>),
                         "wygiwyh.E003")),
               errors.id)
        ELSE Return(errors.heap, errors.id)

\* `settings` is looked up among the module's globals when line 116 runs;
\* an unbound name is a NameError.
call_check_oidc_vars(h) ==
    LET errors == NewList(h)
    IN  IF "settings" \notin ModuleGlobals
        THEN Raise(errors.heap, "NameError")
        ELSE IF settings.OIDC_ONLY /\ Cardinality(settings.SOCIALACCOUNT_PROVIDERS) # 1
             THEN Return(
                    list_append(errors.heap, errors.id,
                        Error(FString("Environment variable OIDC_ONLY can only be set when there is exactly one external authentication provider configured.",
                                      "OIDC_ONLY", <<>>),
                              FString("", "", <<>>),
                              "wygiwyh.E004")),
                    errors.id)
             ELSE Return(errors.heap, errors.id)

Invoke(fn, h) ==
    CASE fn = "check_required_env_vars" -> call_check_required_env_vars(h)
      [] fn = "check_int_env_vars" -> call_check_int_env_vars(h)
      [] fn = "check_soft_delete_config" -> call_check_soft_delete_config(h)
      [] fn = "check_oidc_vars" -> call_check_oidc_vars(h)

\* The host's pass over the registered checks: each check's findings are
\* added to one list; an exception out of a check ends the pass.
RECURSIVE run_checks_loop(_, _, _)
run_checks_loop(h, errors, i) ==
    IF i > Len(RegisteredChecks) THEN Return(h, errors)
    ELSE LET r == Invoke(RegisteredChecks[i], h)
         IN  IF r.exc # "None" THEN Raise(r.heap, r.exc)
             ELSE run_checks_loop(list_extend(r.heap, errors, r.heap[r.ret]),
                                  errors, i + 1)

call_run_checks(h) ==
    LET errors == NewList(h)
    IN  run_checks_loop(errors.heap, errors.id, 1)

\* What the caller of fn holds once the call is over.
CallRecord(fn, r) ==
    [fn |-> fn, exc |-> r.exc, ret |-> r.ret,
     value |-> IF r.exc = "None" THEN r.heap[r.ret] ELSE <<>>]

ViewVars == <<session, users, response>>

\* One call of a check: the program state is read, a list is returned.
Call(fn, r) ==
    /\ Len(calls) < MaxCalls
    /\ heap' = r.heap
    /\ calls' = Append(calls, CallRecord(fn, r))
    /\ UNCHANGED <<environ, settings, ViewVars>>

check_required_env_vars ==
    Call("check_required_env_vars", call_check_required_env_vars(heap))

check_int_env_vars ==
    Call("check_int_env_vars", call_check_int_env_vars(heap))

\* A mutant of check_soft_delete_config: the flag is read with
\* os.environ.setdefault, which binds the default when the name is unbound.
check_soft_delete_config_setdefault ==
    /\ Len(calls) < MaxCalls
    /\ heap' = call_check_soft_delete_config(heap).heap
    /\ calls' = Append(calls, CallRecord("check_soft_delete_config",
                                         call_check_soft_delete_config(heap)))
    /\ environ' = IF "ENABLE_SOFT_DELETE" \in DOMAIN environ THEN environ
                  ELSE [k \in DOMAIN environ \cup {"ENABLE_SOFT_DELETE"} |->
                          IF k = "ENABLE_SOFT_DELETE"
                          THEN <<"f", "a", "l", "s", "e">> ELSE environ[k]]
    /\ UNCHANGED <<settings, ViewVars>>

check_soft_delete_config ==
    Call("check_soft_delete_config", call_check_soft_delete_config(heap))

check_oidc_vars ==
    Call("check_oidc_vars", call_check_oidc_vars(heap))

run_checks ==
    Call("run_checks", call_run_checks(heap))

NextChecks ==
    \/ check_required_env_vars
    \/ check_int_env_vars
    \/ check_soft_delete_config
    \/ check_oidc_vars
    \/ run_checks

(***************************************************************************)
(* Environments and settings the checks are run against.                   *)
(***************************************************************************)
IntAlphabet == {"0", "5", "-", "_", " ", "a"}
ReqAlphabet == {"x", " ", "0"}

RECURSIVE StringsUpTo(_, _)
StringsUpTo(alphabet, n) ==
    IF n = 0 THEN {<<>>}
    ELSE LET shorter == StringsUpTo(alphabet, n - 1)
         IN  shorter \cup {Append(s, c) : s \in shorter, c \in alphabet}

IntSamples == {
    <<>>, <<"a", "b", "c">>, <<"1", "2", ".", "5">>, <<"0">>, <<"-", "5">>,
    <<"1", "0", "0", "0">>, <<"4", "a">>, <<"+", "3">>, <<" ", "7", "\n">>,
    <<"1", "_", "0">>, <<"1", "_", "_", "0">>, <<"_", "1">>, <<"5", "_">>,
    <<"3", "0">>, <<"-">>, <<"+", "-", "1">>, <<"0", "0", "7">> }

FlagSamples == {
    <<"t", "r", "u", "e">>, <<"T", "R", "U", "E">>, <<"T", "r", "u", "e">>,
    <<"t", "R", "u", "E">>, <<"f", "a", "l", "s", "e">>,
    <<"F", "A", "L", "S", "E">>, <<>>, <<"1">>, <<"y", "e", "s">>,
    <<"t", "r", "u", "e", " ">>, <<"t", "r", "u">> }

IntStrings == StringsUpTo(IntAlphabet, MaxStrLen) \cup IntSamples
ReqStrings == StringsUpTo(ReqAlphabet, MaxStrLen) \cup {<<"a", "b", "c">>}

Optional(strings) == {None} \cup {Str(s) : s \in strings}

\* os.environ with the names an assignment of Optional[str] binds.
EnvOf(f) == [k \in {n \in DOMAIN f : ~f[n].none} |-> f[k].s]

RequiredNames == {REQUIRED_ENV_VARS[i][1] : i \in DOMAIN REQUIRED_ENV_VARS}
IntNames == {INT_ENV_VARS[i][1] : i \in DOMAIN INT_ENV_VARS}
SoftDeleteNames == {"ENABLE_SOFT_DELETE", "KEEP_DELETED_TRANSACTIONS_FOR"}
EnvNames == RequiredNames \cup IntNames \cup SoftDeleteNames

Unbound == [k \in EnvNames |-> None]
Deployed ==
    [Unbound EXCEPT !["SECRET_KEY"] = Str(<<"x">>),
                    !["SQL_DATABASE"] = Str(<<"d", "b">>)]

\* One required name over every str, the other over a few.
RequiredEnvs ==
    { EnvOf([[Unbound EXCEPT ![a] = v] EXCEPT ![b] = w]) :
        <<a, b>> \in {p \in RequiredNames \X RequiredNames : p[1] # p[2]},
        <<v, w>> \in Optional(ReqStrings)
                       \X Optional({<<>>, <<"x">>}) }

\* One integer name over every str, on a deployed or a bare environment.
IntEnvs ==
    { EnvOf([base EXCEPT ![a] = v]) :
        base \in {Unbound, Deployed}, a \in IntNames,
        v \in Optional(IntStrings) }

\* The flag and the retention period over their values.
SoftDeleteEnvs ==
    { EnvOf([Deployed EXCEPT !["ENABLE_SOFT_DELETE"] = flag,
                             !["KEEP_DELETED_TRANSACTIONS_FOR"] = keep]) :
        flag \in Optional(FlagSamples), keep \in Optional(IntStrings) }

\* Several names wrong at once.
MixedEnvs ==
    { EnvOf([k \in EnvNames |->
                IF k \in RequiredNames THEN req[k]
                ELSE IF k \in IntNames THEN ints[k]
                ELSE soft[k]]) :
        req \in [RequiredNames -> Optional({<<>>, <<"x">>})],
        ints \in [IntNames -> Optional({<<"4", "a">>, <<"7">>})],
        soft \in { [Unbound EXCEPT !["ENABLE_SOFT_DELETE"] = Str(<<"t", "r", "u", "e">>),
                                   !["KEEP_DELETED_TRANSACTIONS_FOR"] = Str(<<"a", "b", "c">>)],
                   Unbound } }

DefaultSettings == [OIDC_ONLY |-> FALSE, SOCIALACCOUNT_PROVIDERS |-> {}]

AllSettings ==
    [OIDC_ONLY : BOOLEAN, SOCIALACCOUNT_PROVIDERS : SUBSET (1..MaxProviders)]

NoSession == [k \in {} |-> ""]
NoUser == [exists |-> FALSE, is_superuser |-> FALSE, email |-> ""]
NoRequest ==
    [view |-> "", outcome |-> "", user |-> 0, method |-> "", valid |-> FALSE,
     pk |-> 0]

InitViewsIdle ==
    /\ session = NoSession
    /\ users = [id \in 1..MaxUsers |-> NoUser]
    /\ response = NoRequest

InitChecks(envs, setts) ==
    /\ environ \in envs
    /\ settings \in setts
    /\ heap = <<>>
    /\ calls = <<>>
    /\ InitViewsIdle

Init ==
    \/ InitChecks(MixedEnvs, {DefaultSettings})
    \/ InitChecks({EnvOf(Deployed)}, AllSettings)

Spec == Init /\ [][NextChecks]_vars

SpecRequired == InitChecks(RequiredEnvs, {DefaultSettings}) /\ [][NextChecks]_vars

SpecInt == InitChecks(IntEnvs, {DefaultSettings}) /\ [][NextChecks]_vars

SpecSoftDelete == InitChecks(SoftDeleteEnvs, {DefaultSettings}) /\ [][NextChecks]_vars

(***************************************************************************)
(* apps/users/views.py                                                     *)
(***************************************************************************)
\* A request: who sends it (0 is the anonymous user), how, and for
\* user_edit the posted form and whether the form validates.
Requests ==
    [user : 0..MaxUsers, method : {"GET", "POST"}, htmx : BOOLEAN,
     demo : BOOLEAN, valid : BOOLEAN,
     data : [is_superuser : BOOLEAN, email : {"a@x", "b@x"}]]

\* The sender is the anonymous user or a row of the user table.
Sender(request) ==
    IF request.user = 0 THEN TRUE ELSE users[request.user].exists

\* The decorators of each view, outermost first.
Decorators(view) ==
    CASE view = "toggle_sidebar_status" ->
            <<"only_htmx", "htmx_login_required", "require_GET">>
      [] view = "toggle_theme" ->
            <<"htmx_login_required", "require_GET">>
      [] view = "user_edit" ->
            <<"only_htmx", "htmx_login_required", "disabled_on_demo",
              "require_GET_POST">>

\* Does the decorator let the request through to what it wraps?
Admits(decorator, request) ==
    CASE decorator = "only_htmx" -> request.htmx
      [] decorator = "htmx_login_required" -> request.user # 0
      [] decorator = "disabled_on_demo" -> ~request.demo
      [] decorator = "require_GET" -> request.method = "GET"
      [] decorator = "require_GET_POST" -> request.method \in {"GET", "POST"}

\* The first decorator that turns the request away, "" if none does.
RECURSIVE RejectedBy(_, _, _)
RejectedBy(decorators, request, i) ==
    IF i > Len(decorators) THEN ""
    ELSE IF ~Admits(decorators[i], request) THEN decorators[i]
         ELSE RejectedBy(decorators, request, i + 1)

\* not request.session.get(key): the key is unset or holds "".
session_falsy(sess, key) == key \notin DOMAIN sess \/ sess[key] = ""

\* request.session[key] = value
session_set(sess, key, value) ==
    [k \in DOMAIN sess \cup {key} |-> IF k = key THEN value ELSE sess[k]]

\* The body of toggle_sidebar_status.
toggle_sidebar_status_body(sess) ==
    LET s1 == IF session_falsy(sess, "sidebar_status")
              THEN session_set(sess, "sidebar_status", "floating")
              ELSE sess
    IN  IF s1["sidebar_status"] = "floating"
        THEN session_set(s1, "sidebar_status", "fixed")
        ELSE IF s1["sidebar_status"] = "fixed"
             THEN session_set(s1, "sidebar_status", "floating")
             ELSE session_set(s1, "sidebar_status", "fixed")

\* A mutant of toggle_theme_body: the default is stored and the call ends,
\* and a value outside the pair is left as it is.
toggle_theme_body_keep(sess) ==
    IF session_falsy(sess, "theme")
    THEN session_set(sess, "theme", "wygiwyh_dark")
    ELSE IF sess["theme"] = "wygiwyh_dark"
         THEN session_set(sess, "theme", "wygiwyh_light")
         ELSE IF sess["theme"] = "wygiwyh_light"
              THEN session_set(sess, "theme", "wygiwyh_dark")
              ELSE sess

\* The body of toggle_theme.
toggle_theme_body(sess) ==
    LET s1 == IF session_falsy(sess, "theme")
              THEN session_set(sess, "theme", "wygiwyh_dark")
              ELSE sess
    IN  IF s1["theme"] = "wygiwyh_dark"
        THEN session_set(s1, "theme", "wygiwyh_light")
        ELSE IF s1["theme"] = "wygiwyh_light"
             THEN session_set(s1, "theme", "wygiwyh_dark")
             ELSE session_set(s1, "theme", "wygiwyh_light")

Response(view, outcome, request, pk) ==
    [view |-> view, outcome |-> outcome, user |-> request.user,
     method |-> request.method, valid |-> request.valid, pk |-> pk]

CheckVars == <<environ, settings, heap, calls>>

toggle_sidebar_status ==
    \E request \in Requests :
        /\ Sender(request)
        /\ LET rejected == RejectedBy(Decorators("toggle_sidebar_status"), request, 1)
           IN  IF rejected # ""
               THEN /\ response' = Response("toggle_sidebar_status", rejected, request, 0)
                    /\ UNCHANGED session
               ELSE /\ session' = toggle_sidebar_status_body(session)
                    /\ response' = Response("toggle_sidebar_status", "204", request, 0)
        /\ UNCHANGED <<users, CheckVars>>

toggle_theme ==
    \E request \in Requests :
        /\ Sender(request)
        /\ LET rejected == RejectedBy(Decorators("toggle_theme"), request, 1)
           IN  IF rejected # ""
               THEN /\ response' = Response("toggle_theme", rejected, request, 0)
                    /\ UNCHANGED session
               ELSE /\ session' = toggle_theme_body(session)
                    /\ response' = Response("toggle_theme", "204", request, 0)
        /\ UNCHANGED <<users, CheckVars>>

\* get_object_or_404(get_user_model(), id=pk) finds a row.
user_found(pk) == pk \in DOMAIN users /\ users[pk].exists

\* A mutant of permission_denied: the owner test is left out of the view.
permission_never_denied(request, pk) == FALSE

\* not request.user.is_superuser and user != request.user
permission_denied(request, pk) ==
    ~users[request.user].is_superuser /\ pk # request.user

\* UserUpdateForm(request.POST, instance=user).save(): the posted fields are
\* written to the row of the instance.
form_save(table, pk, data) ==
    [table EXCEPT ![pk] = [exists |-> TRUE,
                           is_superuser |-> data.is_superuser,
                           email |-> data.email]]

user_edit ==
    \E request \in Requests, pk \in 1..(MaxUsers + 1) :
        /\ Sender(request)
        /\ LET rejected == RejectedBy(Decorators("user_edit"), request, 1)
           IN  IF rejected # ""
               THEN /\ response' = Response("user_edit", rejected, request, pk)
                    /\ UNCHANGED users
               ELSE IF ~user_found(pk)
               THEN /\ response' = Response("user_edit", "Http404", request, pk)
                    /\ UNCHANGED users
               ELSE IF permission_denied(request, pk)
               THEN /\ response' = Response("user_edit", "PermissionDenied", request, pk)
                    /\ UNCHANGED users
               ELSE IF request.method = "POST" /\ request.valid
               THEN /\ users' = form_save(users, pk, request.data)
                    /\ response' = Response("user_edit", "204", request, pk)
               ELSE /\ response' = Response("user_edit", "render", request, pk)
                    /\ UNCHANGED users
        /\ UNCHANGED <<session, CheckVars>>

SessionValues ==
    {"", "wygiwyh_dark", "wygiwyh_light", "floating", "fixed", "solarized"}

Sessions ==
    UNION { [keys -> SessionValues] : keys \in SUBSET {"theme", "sidebar_status"} }

UserRows ==
    {NoUser} \cup [exists : {TRUE}, is_superuser : BOOLEAN, email : {"a@x", "b@x"}]

InitChecksIdle ==
    /\ environ = EnvOf(Deployed)
    /\ settings = DefaultSettings
    /\ heap = <<>>
    /\ calls = <<>>

InitSession ==
    /\ InitChecksIdle
    /\ session \in Sessions
    /\ users = [id \in 1..MaxUsers |->
                  IF id = 1 THEN [exists |-> TRUE, is_superuser |-> FALSE,
                                  email |-> "a@x"]
                  ELSE NoUser]
    /\ response = NoRequest

InitUsers ==
    /\ InitChecksIdle
    /\ session = NoSession
    /\ users \in [1..MaxUsers -> UserRows]
    /\ response = NoRequest

NextSession == toggle_sidebar_status \/ toggle_theme

SpecSession == InitSession /\ [][NextSession]_vars

SpecUsers == InitUsers /\ [][user_edit]_vars

(***************************************************************************)
(* Properties.                                                             *)
(***************************************************************************)
CheckNames == {RegisteredChecks[i] : i \in DOMAIN RegisteredChecks}

CallsOf(fn) == {i \in DOMAIN calls : calls[i].fn = fn}

\* The findings of a list that carry the code and mention the name.
FindingsFor(findings, id, name) ==
    {j \in DOMAIN findings :
        findings[j].id = id /\ findings[j].msg.var_name = name}

\* s is a base-10 integer written out: at most one sign, then digits; white
\* space around it is let pass.
PlainBase10Integer(s) ==
    \E lo \in 1..Len(s), hi \in 1..Len(s), sign \in {0, 1} :
        /\ lo <= hi
        /\ lo - sign >= 1
        /\ sign = 1 => s[lo - 1] \in {"+", "-"}
        /\ \A k \in 1..(lo - sign - 1) : s[k] \in Whitespace
        /\ \A k \in (hi + 1)..Len(s) : s[k] \in Whitespace
        /\ \A k \in lo..hi : s[k] \in DigitChars

\* s is a str int() takes: white space, at most one sign, then digits that
\* single underscores may separate, then white space.
AcceptedByInt(s) ==
    \E lo \in 1..Len(s), hi \in 1..Len(s), sign \in {0, 1} :
        /\ lo <= hi
        /\ lo - sign >= 1
        /\ sign = 1 => s[lo - 1] \in {"+", "-"}
        /\ \A k \in 1..(lo - sign - 1) : s[k] \in Whitespace
        /\ \A k \in (hi + 1)..Len(s) : s[k] \in Whitespace
        /\ s[lo] \in DigitChars /\ s[hi] \in DigitChars
        /\ \A k \in lo..hi : s[k] \in DigitChars \cup {"_"}
        /\ \A k \in lo..(hi - 1) : ~(s[k] = "_" /\ s[k + 1] = "_")

\* s is "true" in some mix of upper and lower case.
IsTrueIgnoringCase(s) ==
    /\ Len(s) = 4
    /\ s[1] \in {"t", "T"} /\ s[2] \in {"r", "R"}
    /\ s[3] \in {"u", "U"} /\ s[4] \in {"e", "E"}

\* C1: a call of check_required_env_vars returns, and for each of SECRET_KEY
\* and SQL_DATABASE its result holds an E001 finding mentioning the name
\* exactly when the environment does not bind the name or binds it to "".
C1_RequiredFindings ==
    \A i \in CallsOf("check_required_env_vars") :
        /\ calls[i].exc = "None"
        /\ \A name \in {"SECRET_KEY", "SQL_DATABASE"} :
              (FindingsFor(calls[i].value, "wygiwyh.E001", name) # {})
                <=> (name \notin DOMAIN environ \/ environ[name] = <<>>)

C1_Witness ==
    \E i \in CallsOf("check_required_env_vars") :
        /\ "SECRET_KEY" \in DOMAIN environ /\ environ["SECRET_KEY"] = <<" ">>
        /\ "SQL_DATABASE" \in DOMAIN environ /\ environ["SQL_DATABASE"] = <<>>
        /\ Len(calls[i].value) = 1
        /\ calls[i].value[1].msg.var_name = "SQL_DATABASE"

\* What C2 says of a call of check_int_env_vars, for a reading `integer`
\* of "the value is a base-10 integer string".
IntFindings(integer(_)) ==
    \A i \in CallsOf("check_int_env_vars") :
        /\ calls[i].exc = "None"
        /\ \A name \in {"TASK_WORKERS", "SESSION_EXPIRY_TIME", "INTERNAL_PORT",
                        "DJANGO_VITE_DEV_SERVER_PORT"} :
              LET found == FindingsFor(calls[i].value, "wygiwyh.E002", name)
              IN  /\ (found # {})
                       <=> (name \in DOMAIN environ /\ ~integer(environ[name]))
                  /\ \A j \in found : calls[i].value[j].msg.value = environ[name]
                  /\ name \in DOMAIN environ =>
                       /\ environ[name] \in {<<"0">>, <<"-", "5">>,
                                             <<"1", "0", "0", "0">>}
                            => found = {}
                       /\ environ[name] \in {<<"a", "b", "c">>,
                                             <<"1", "2", ".", "5">>, <<>>}
                            => found # {}

\* C2 as stated: a call of check_int_env_vars returns, and for each of the
\* four integer names its result holds an E002 finding for the name exactly
\* when the name is bound (to "" too) and its value is no base-10 integer
\* string; the finding quotes the value as it is bound; "0", "-5" and "1000"
\* give no finding, "abc", "12.5" and "" give one.
C2_IntFindingsPlain == IntFindings(PlainBase10Integer)

\* C2 as amended: the same, with "is no base-10 integer string" read as
\* "is no str int() takes": single underscores between the digits are taken
\* too, so a value such as "1_0" gives no finding.
C2_IntFindings == IntFindings(AcceptedByInt)

C2_Witness ==
    \E i \in CallsOf("check_int_env_vars") :
        /\ "INTERNAL_PORT" \in DOMAIN environ
        /\ environ["INTERNAL_PORT"] = <<"1", "2", ".", "5">>
        /\ Len(calls[i].value) = 1
        /\ calls[i].value[1].msg.value = <<"1", "2", ".", "5">>

\* C3: a call of check_soft_delete_config returns exactly one E003 finding
\* when ENABLE_SOFT_DELETE is "true" in any case and
\* KEEP_DELETED_TRANSACTIONS_FOR is bound to a value that is no integer, and
\* returns no finding in every other case.
C3_SoftDeleteFinding ==
    \A i \in CallsOf("check_soft_delete_config") :
        /\ calls[i].exc = "None"
        /\ IF /\ "ENABLE_SOFT_DELETE" \in DOMAIN environ
              /\ IsTrueIgnoringCase(environ["ENABLE_SOFT_DELETE"])
              /\ "KEEP_DELETED_TRANSACTIONS_FOR" \in DOMAIN environ
              /\ ~AcceptedByInt(environ["KEEP_DELETED_TRANSACTIONS_FOR"])
           THEN /\ Len(calls[i].value) = 1
                /\ calls[i].value[1].id = "wygiwyh.E003"
           ELSE calls[i].value = <<>>

C3_Witness ==
    \E i \in CallsOf("check_soft_delete_config") :
        /\ "ENABLE_SOFT_DELETE" \in DOMAIN environ
        /\ environ["ENABLE_SOFT_DELETE"] = <<"T", "R", "U", "E">>
        /\ "KEEP_DELETED_TRANSACTIONS_FOR" \in DOMAIN environ
        /\ environ["KEEP_DELETED_TRANSACTIONS_FOR"] = <<"a", "b", "c">>
        /\ Len(calls[i].value) = 1

\* C4: a call of check_oidc_vars returns exactly one E004 finding when
\* OIDC_ONLY is true and the number of providers is not one, and returns an
\* empty list otherwise.
C4_OidcFinding ==
    \A i \in CallsOf("check_oidc_vars") :
        /\ calls[i].exc = "None"
        /\ IF settings.OIDC_ONLY /\ Cardinality(settings.SOCIALACCOUNT_PROVIDERS) # 1
           THEN /\ Len(calls[i].value) = 1
                /\ calls[i].value[1].id = "wygiwyh.E004"
           ELSE calls[i].value = <<>>

\* C5: every call of one of the four registered checks returns a list; none
\* raises.
C5_ChecksTotal ==
    \A i \in DOMAIN calls :
        calls[i].fn \in CheckNames => calls[i].exc = "None"

\* The code and the name of each finding, in order.
Codes(findings) ==
    [j \in DOMAIN findings |-> <<findings[j].id, findings[j].msg.var_name>>]

\* The entries of a list that violate, in declaration order, under a code.
Violations(entries, violates(_), id) ==
    LET bad == SelectSeq(entries, LAMBDA e : violates(e[1]))
    IN  [j \in DOMAIN bad |-> <<id, bad[j][1]>>]

RequiredViolations ==
    Violations(REQUIRED_ENV_VARS,
               LAMBDA n : n \notin DOMAIN environ \/ environ[n] = <<>>,
               "wygiwyh.E001")

IntViolations ==
    Violations(INT_ENV_VARS,
               LAMBDA n : n \in DOMAIN environ /\ ~AcceptedByInt(environ[n]),
               "wygiwyh.E002")

SoftDeleteViolations ==
    IF /\ "ENABLE_SOFT_DELETE" \in DOMAIN environ
       /\ IsTrueIgnoringCase(environ["ENABLE_SOFT_DELETE"])
       /\ "KEEP_DELETED_TRANSACTIONS_FOR" \in DOMAIN environ
       /\ ~AcceptedByInt(environ["KEEP_DELETED_TRANSACTIONS_FOR"])
    THEN << <<"wygiwyh.E003", "KEEP_DELETED_TRANSACTIONS_FOR">> >>
    ELSE <<>>

OidcViolations ==
    IF settings.OIDC_ONLY /\ Cardinality(settings.SOCIALACCOUNT_PROVIDERS) # 1
    THEN << <<"wygiwyh.E004", "OIDC_ONLY">> >>
    ELSE <<>>

\* The per-check half of C6: one finding per violating entry, in the
\* declaration order of the list.
PerCheckReportsAll ==
    /\ \A i \in CallsOf("check_required_env_vars") :
          Codes(calls[i].value) = RequiredViolations
    /\ \A i \in CallsOf("check_int_env_vars") :
          Codes(calls[i].value) = IntViolations

\* C6: each check's result holds one finding per violating entry of its list
\* in declaration order, and a pass over the checks returns the per-check
\* results one after the other.
C6_PassReportsAll ==
    /\ PerCheckReportsAll
    /\ \A i \in CallsOf("run_checks") :
          /\ calls[i].exc = "None"
          /\ Codes(calls[i].value)
               = RequiredViolations \o IntViolations
                   \o SoftDeleteViolations \o OidcViolations

Returned == {i \in DOMAIN calls : calls[i].exc = "None"}

Toggled(view) == response'.view = view /\ response'.outcome = "204"

SameKey(key) ==
    /\ (key \in DOMAIN session') <=> (key \in DOMAIN session)
    /\ key \in DOMAIN session => session'[key] = session[key]

ToggleStep(view, key, default, other) ==
    Toggled(view) =>
        /\ key \in DOMAIN session'
        /\ session'[key] \in {default, other}
        /\ session_falsy(session, key) => session'[key] = other
        /\ ~session_falsy(session, key) =>
              /\ session[key] = default => session'[key] = other
              /\ session[key] = other => session'[key] = default

\* C9: a call of toggle_theme leaves "theme" at wygiwyh_dark or
\* wygiwyh_light and a call of toggle_sidebar_status leaves "sidebar_status"
\* at floating or fixed, whatever was there; unset or "" counts as the
\* default, so the call gives wygiwyh_light / fixed; from one value of the
\* pair the call gives the other; neither call touches the other key.
C9_TwoStateToggles ==
    [][ /\ ToggleStep("toggle_theme", "theme", "wygiwyh_dark", "wygiwyh_light")
        /\ Toggled("toggle_theme") => SameKey("sidebar_status")
        /\ ToggleStep("toggle_sidebar_status", "sidebar_status", "floating", "fixed")
        /\ Toggled("toggle_sidebar_status") => SameKey("theme")
      ]_vars

C9_Witness ==
    /\ response.view = "toggle_theme"
    /\ response.outcome = "204"
    /\ "theme" \in DOMAIN session
    /\ session["theme"] = "wygiwyh_light"
    /\ "sidebar_status" \notin DOMAIN session

BodyOutcomes == {"Http404", "PermissionDenied", "204", "render"}

\* C10: a user row changes only by a valid POST of a superuser or of the
\* user the row belongs to, and then only that row; once past the
\* decorators a request for a missing pk ends in Http404, a request of a
\* non-superuser for another user's pk in PermissionDenied; a GET or an
\* invalid POST changes no row.
C10_EditAuthorized ==
    [][ LET r == response' IN
        /\ users' # users =>
              /\ r.view = "user_edit" /\ r.outcome = "204"
              /\ r.method = "POST" /\ r.valid
              /\ r.user # 0
              /\ users[r.user].is_superuser \/ r.pk = r.user
              /\ \A id \in DOMAIN users : id # r.pk => users'[id] = users[id]
        /\ r.outcome \in BodyOutcomes =>
              /\ r.outcome = "Http404"
                   <=> (r.pk \notin DOMAIN users \/ ~users[r.pk].exists)
              /\ r.outcome = "PermissionDenied"
                   <=> /\ r.pk \in DOMAIN users /\ users[r.pk].exists
                       /\ ~users[r.user].is_superuser /\ r.pk # r.user
        /\ (r.outcome # "204" \/ r.method = "GET" \/ ~r.valid) => users' = users
      ]_vars

C10_Witness ==
    /\ response.view = "user_edit"
    /\ response.outcome = "204"
    /\ response.user # response.pk
    /\ users[response.user].is_superuser
    /\ users[response.pk].email = "b@x"

====
